---- MODULE Spec2Model ----
(***************************************************************************)
(* Model of package winstartupreg (winstartupreg.go): add, remove and list *)
(* Windows startup entries under the four Run / RunOnce registry keys.     *)
(*                                                                         *)
(* The registry and the filesystem are the package's only state.  The      *)
(* registry is modelled as the values stored under each key (reg), the     *)
(* access the calling process is granted on each root key (access) and     *)
(* whether value operations on an open key currently fail (fault).  Every  *)
(* exported function is an operator on a registry, giving the error it     *)
(* returns, the registry it leaves and the handles it opened and closed,   *)
(* and one action that applies it to the current state; handles counts the *)
(* handles left open and last holds what the latest call returned.         *)
(***************************************************************************)
EXTENDS Integers, Sequences, FiniteSets, TLC

VARIABLES reg, access, fault, handles, last

vars == <<reg, access, fault, handles, last>>

----------------------------------------------------------------------------
(* Bounds *)

\* Largest number of values the registry holds over all four keys.
MaxEntries == 2

----------------------------------------------------------------------------
(* StartupRegistryType *)

CurrentUserRun == 0
CurrentUserRunOnce == 1
AllUsersRun == 2
AllUsersRunOnce == 3

\* The values callers pass as a StartupRegistryType: the four declared ones
\* and one outside the enumeration.
ScopeValues == {CurrentUserRun, CurrentUserRunOnce, AllUsersRun, AllUsersRunOnce, 7}

\* The slice literal of SafeRemoveStartupEntry and ListAllStartupEntries.
registryTypes == <<CurrentUserRun, CurrentUserRunOnce, AllUsersRun, AllUsersRunOnce>>

getRegistryPath(registryType) ==
    CASE registryType = CurrentUserRun ->
            [keyPath |-> "Software\\Microsoft\\Windows\\CurrentVersion\\Run",
             rootKey |-> "CURRENT_USER"]
      [] registryType = CurrentUserRunOnce ->
            [keyPath |-> "Software\\Microsoft\\Windows\\CurrentVersion\\RunOnce",
             rootKey |-> "CURRENT_USER"]
      [] registryType = AllUsersRun ->
            [keyPath |-> "SOFTWARE\\Microsoft\\Windows\\CurrentVersion\\Run",
             rootKey |-> "LOCAL_MACHINE"]
      [] registryType = AllUsersRunOnce ->
            [keyPath |-> "SOFTWARE\\Microsoft\\Windows\\CurrentVersion\\RunOnce",
             rootKey |-> "LOCAL_MACHINE"]
      [] OTHER ->
            [keyPath |-> "Software\\Microsoft\\Windows\\CurrentVersion\\Run",
             rootKey |-> "CURRENT_USER"]

RootKeys == {"CURRENT_USER", "LOCAL_MACHINE"}

Keys == {getRegistryPath(t) : t \in ScopeValues}

----------------------------------------------------------------------------
(* Names, commands and the filesystem *)

\* Value names the callers use; "" is the empty name AddStartupEntry rejects.
StoredNames == {"TestApp", "Other"}
Names == StoredNames \cup {""}

\* A path is the sequence of its components.
Cwd == <<"C:", "work">>

Commands ==
    { <<".", "app.exe">>,                 \* relative, exists once made absolute
      <<"C:", "nope", "missing.exe">>,    \* absolute, no such file
      <<"C:", "work", "a?b.exe">>,        \* no such file; Stat fails, not with "not exist"
      <<"NUL-byte">> }                    \* cannot be made absolute

Files == { <<"C:", "work", "app.exe">> }

\* Paths whose Stat fails with an error other than "does not exist"
\* (an invalid file name, a directory that may not be traversed).
Unreadable == { <<"C:", "work", "a?b.exe">> }

IsAbs(p) == Len(p) > 0 /\ p[1] = "C:"

RECURSIVE Clean(_)
Clean(p) ==
    IF p = <<>> THEN <<>>
    ELSE LET c == Clean(SubSeq(p, 1, Len(p) - 1))
             x == p[Len(p)]
         IN  IF x = "." THEN c
             ELSE IF x = ".." /\ Len(c) > 1 THEN SubSeq(c, 1, Len(c) - 1)
             ELSE IF x = ".." THEN c
             ELSE Append(c, x)

\* filepath.Abs: [err, path].
Abs(p) ==
    IF p = <<"NUL-byte">> THEN [err |-> "EINVAL", path |-> <<>>]
    ELSE IF IsAbs(p) THEN [err |-> "nil", path |-> Clean(p)]
    ELSE [err |-> "nil", path |-> Clean(Cwd \o p)]

\* os.Stat: the error it returns.
Stat(p) ==
    IF p \in Files THEN "nil"
    ELSE IF p \in Unreadable THEN "ERROR_INVALID_NAME"
    ELSE "ERROR_FILE_NOT_FOUND"

\* os.IsNotExist
IsNotExist(err) == err \in {"ERROR_FILE_NOT_FOUND", "ERROR_PATH_NOT_FOUND"}

Exists(p) == p \in Files

----------------------------------------------------------------------------
(* The registry (golang.org/x/sys/windows/registry) *)

Absent == [type |-> "NONE", data |-> <<>>]
String(p) == [type |-> "SZ", data |-> p]
\* A value of another type, written by another program.
Dword == [type |-> "DWORD", data |-> <<>>]

AccessLevels == {"none", "read", "all"}

\* The root keys on which the access of the calling process varies: its own
\* hive is always open to it, the machine hive depends on its privileges.
RestrictedRootKeys == {"LOCAL_MACHINE"}

EmptyRegistry == [k \in Keys |-> [n \in StoredNames |-> Absent]]

Count(r) == Cardinality({kn \in Keys \X StoredNames : r[kn[1]][kn[2]] # Absent})

\* Errors are a kind and what the message is built from.
Err(kind, detail) == [kind |-> kind, detail |-> detail]
Nil == Err("nil", <<>>)

\* A nil or empty map.
NoEntries == <<>>

\* registry.OpenKey: the system error, "nil" when a handle is returned.
OpenKey(rootKey, keyPath, mode) ==
    IF mode = "ALL_ACCESS" /\ access[rootKey] = "all" THEN "nil"
    ELSE IF mode = "QUERY_VALUE" /\ access[rootKey] \in {"read", "all"} THEN "nil"
    ELSE "ERROR_ACCESS_DENIED"

\* Key.SetStringValue on the registry r
SetStringValue(r, k, name, value) ==
    IF fault THEN [err |-> "ERROR_GEN_FAILURE", reg |-> r]
    ELSE [err |-> "nil", reg |-> [r EXCEPT ![k][name] = String(value)]]

\* Key.DeleteValue on the registry r
DeleteValue(r, k, name) ==
    IF fault THEN [err |-> "ERROR_GEN_FAILURE", reg |-> r]
    ELSE IF name \notin StoredNames \/ r[k][name] = Absent
         THEN [err |-> "ERROR_FILE_NOT_FOUND", reg |-> r]
    ELSE [err |-> "nil", reg |-> [r EXCEPT ![k][name] = Absent]]

\* strings.Contains(err.Error(), "The system cannot find the file specified"):
\* the text of ERROR_FILE_NOT_FOUND, and of no other error of the model.
IsFileNotFoundText(err) == err = "ERROR_FILE_NOT_FOUND"

\* Key.ReadValueNames(0)
ReadValueNames(r, k) ==
    IF fault THEN [err |-> "ERROR_GEN_FAILURE", names |-> {}]
    ELSE [err |-> "nil", names |-> {n \in StoredNames : r[k][n] # Absent}]

\* Key.GetStringValue
GetStringValue(r, k, name) ==
    IF r[k][name].type = "SZ" THEN [err |-> "nil", value |-> r[k][name].data]
    ELSE [err |-> "ErrUnexpectedType", value |-> <<>>]

----------------------------------------------------------------------------
(* Handles: the trace of opens and closes of a call *)

RECURSIVE Balance(_)
Balance(trace) ==
    IF trace = <<>> THEN 0
    ELSE Balance(Tail(trace)) + (IF Head(trace) = "open" THEN 1 ELSE -1)

RECURSIVE PeakFrom(_, _)
PeakFrom(open, trace) ==
    IF trace = <<>> THEN open
    ELSE LET now == open + (IF Head(trace) = "open" THEN 1 ELSE -1)
             rest == PeakFrom(now, Tail(trace))
         IN  IF rest > open THEN rest ELSE open

\* Mutant of DeferClose: the deferred Close is missing.
DeferClose_Missing == <<>>

\* defer k.Close()
DeferClose == <<"close">>

----------------------------------------------------------------------------
(* The exported functions, as results on a registry r *)

\* Mutant of WriteEntry: the value written is entry.Command as given, not
\* the absolute path.
WriteEntry_RawCommand(r, entry, registryType, fullPath) ==
    LET k == getRegistryPath(registryType)
        open == OpenKey(k.rootKey, k.keyPath, "ALL_ACCESS") IN
    IF open # "nil" THEN
        [err |-> Err("Access", <<open>>), reg |-> r, trace |-> <<>>]
    ELSE LET set == SetStringValue(r, k, entry.Name, entry.Command) IN
    IF set.err # "nil" THEN
        [err |-> Err("Write", <<set.err>>), reg |-> set.reg,
         trace |-> <<"open">> \o DeferClose]
    ELSE
        [err |-> Nil, reg |-> set.reg, trace |-> <<"open">> \o DeferClose]

\* Mutant of WriteEntry: the key is that of CurrentUserRun whatever the scope.
WriteEntry_DefaultKey(r, entry, registryType, fullPath) ==
    LET k == getRegistryPath(CurrentUserRun)
        open == OpenKey(k.rootKey, k.keyPath, "ALL_ACCESS") IN
    IF open # "nil" THEN
        [err |-> Err("Access", <<open>>), reg |-> r, trace |-> <<>>]
    ELSE LET set == SetStringValue(r, k, entry.Name, fullPath) IN
    IF set.err # "nil" THEN
        [err |-> Err("Write", <<set.err>>), reg |-> set.reg,
         trace |-> <<"open">> \o DeferClose]
    ELSE
        [err |-> Nil, reg |-> set.reg, trace |-> <<"open">> \o DeferClose]

\* The second half of AddStartupEntry: open the key of the scope and set
\* the value.
WriteEntry(r, entry, registryType, fullPath) ==
    LET k == getRegistryPath(registryType)
        open == OpenKey(k.rootKey, k.keyPath, "ALL_ACCESS") IN
    IF open # "nil" THEN
        [err |-> Err("Access", <<open>>), reg |-> r, trace |-> <<>>]
    ELSE LET set == SetStringValue(r, k, entry.Name, fullPath) IN
    IF set.err # "nil" THEN
        [err |-> Err("Write", <<set.err>>), reg |-> set.reg,
         trace |-> <<"open">> \o DeferClose]
    ELSE
        [err |-> Nil, reg |-> set.reg, trace |-> <<"open">> \o DeferClose]

AddStartupEntryOn(r, entry, registryType) ==
    IF entry.Name = "" THEN
        [err |-> Err("Validation", <<>>), reg |-> r, trace |-> <<>>]
    ELSE LET abs == Abs(entry.Command) IN
    IF abs.err # "nil" THEN
        [err |-> Err("Path", <<abs.err>>), reg |-> r, trace |-> <<>>]
    ELSE LET fullPath == abs.path IN
    IF IsNotExist(Stat(fullPath)) THEN
        [err |-> Err("NotFound", <<fullPath>>), reg |-> r, trace |-> <<>>]
    ELSE WriteEntry(r, entry, registryType, fullPath)

\* Mutant of RemoveStartupEntryOn: a value that is not there is no error.
RemoveStartupEntryOn_MissingIsNil(r, entryName, registryType) ==
    LET k == getRegistryPath(registryType)
        open == OpenKey(k.rootKey, k.keyPath, "ALL_ACCESS") IN
    IF open # "nil" THEN
        [err |-> Err("Access", <<open>>), reg |-> r, trace |-> <<>>]
    ELSE LET del == DeleteValue(r, k, entryName) IN
    IF del.err # "nil" /\ ~IsFileNotFoundText(del.err) THEN
        [err |-> Err("Delete", <<del.err>>), reg |-> del.reg,
         trace |-> <<"open">> \o DeferClose]
    ELSE
        [err |-> Nil, reg |-> del.reg, trace |-> <<"open">> \o DeferClose]

\* Mutant of RemoveStartupEntryOn: the key is that of CurrentUserRun
\* whatever the scope.
RemoveStartupEntryOn_DefaultKey(r, entryName, registryType) ==
    LET k == getRegistryPath(CurrentUserRun)
        open == OpenKey(k.rootKey, k.keyPath, "ALL_ACCESS") IN
    IF open # "nil" THEN
        [err |-> Err("Access", <<open>>), reg |-> r, trace |-> <<>>]
    ELSE LET del == DeleteValue(r, k, entryName) IN
    IF del.err # "nil" THEN
        IF IsFileNotFoundText(del.err) THEN
            [err |-> Err("NotFound", <<entryName, k.keyPath>>), reg |-> del.reg,
             trace |-> <<"open">> \o DeferClose]
        ELSE
            [err |-> Err("Delete", <<del.err>>), reg |-> del.reg,
             trace |-> <<"open">> \o DeferClose]
    ELSE
        [err |-> Nil, reg |-> del.reg, trace |-> <<"open">> \o DeferClose]

RemoveStartupEntryOn(r, entryName, registryType) ==
    LET k == getRegistryPath(registryType)
        open == OpenKey(k.rootKey, k.keyPath, "ALL_ACCESS") IN
    IF open # "nil" THEN
        [err |-> Err("Access", <<open>>), reg |-> r, trace |-> <<>>]
    ELSE LET del == DeleteValue(r, k, entryName) IN
    IF del.err # "nil" THEN
        IF IsFileNotFoundText(del.err) THEN
            [err |-> Err("NotFound", <<entryName, k.keyPath>>), reg |-> del.reg,
             trace |-> <<"open">> \o DeferClose]
        ELSE
            [err |-> Err("Delete", <<del.err>>), reg |-> del.reg,
             trace |-> <<"open">> \o DeferClose]
    ELSE
        [err |-> Nil, reg |-> del.reg, trace |-> <<"open">> \o DeferClose]

\* The body of the loop of SafeRemoveStartupEntry: st is the registry,
\* lastErr, removedFromAny and the handle trace so far, r what
\* RemoveStartupEntry returned for the scope.
SafeRemoveStep(st, r) ==
    IF r.err = Nil
    THEN [st EXCEPT !.reg = r.reg, !.removedFromAny = TRUE,
                    !.trace = st.trace \o r.trace]
    ELSE [st EXCEPT !.reg = r.reg, !.lastErr = r.err,
                    !.trace = st.trace \o r.trace]

\* The loop body with lastErr keeping the first error.
SafeRemoveStep_FirstErr(st, r) ==
    IF r.err = Nil
    THEN [st EXCEPT !.reg = r.reg, !.removedFromAny = TRUE,
                    !.trace = st.trace \o r.trace]
    ELSE [st EXCEPT !.reg = r.reg,
                    !.lastErr = IF st.lastErr = Nil THEN r.err ELSE st.lastErr,
                    !.trace = st.trace \o r.trace]

\* Mutant of SafeRemoveLoop: the loop breaks at the first scope it removed
\* the entry from.
RECURSIVE SafeRemoveLoop_StopAtFirst(_, _, _)
SafeRemoveLoop_StopAtFirst(st, entryName, i) ==
    IF i > Len(registryTypes) \/ st.removedFromAny THEN st
    ELSE SafeRemoveLoop_StopAtFirst(
            SafeRemoveStep(st, RemoveStartupEntryOn(st.reg, entryName, registryTypes[i])),
            entryName, i + 1)

\* Mutant of SafeRemoveLoop: lastErr keeps the first error, not the last.
RECURSIVE SafeRemoveLoop_FirstErr(_, _, _)
SafeRemoveLoop_FirstErr(st, entryName, i) ==
    IF i > Len(registryTypes) THEN st
    ELSE SafeRemoveLoop_FirstErr(
            SafeRemoveStep_FirstErr(st, RemoveStartupEntryOn(st.reg, entryName,
                                                             registryTypes[i])),
            entryName, i + 1)

\* The loop of SafeRemoveStartupEntry from registryTypes[i] on.
RECURSIVE SafeRemoveLoop(_, _, _)
SafeRemoveLoop(st, entryName, i) ==
    IF i > Len(registryTypes) THEN st
    ELSE SafeRemoveLoop(
            SafeRemoveStep(st, RemoveStartupEntryOn(st.reg, entryName, registryTypes[i])),
            entryName, i + 1)

SafeRemoveStartupEntryOn(r, entryName) ==
    LET st == SafeRemoveLoop([reg |-> r, lastErr |-> Nil,
                              removedFromAny |-> FALSE, trace |-> <<>>],
                             entryName, 1) IN
    IF ~st.removedFromAny THEN
        [err |-> Err("AggregateNotFound", <<entryName, st.lastErr>>),
         reg |-> st.reg, trace |-> st.trace]
    ELSE
        [err |-> Nil, reg |-> st.reg, trace |-> st.trace]

ListStartupEntriesOn(r, registryType) ==
    LET k == getRegistryPath(registryType)
        open == OpenKey(k.rootKey, k.keyPath, "QUERY_VALUE") IN
    IF open # "nil" THEN
        [err |-> Err("Access", <<open>>), entries |-> NoEntries, trace |-> <<>>]
    ELSE LET valueNames == ReadValueNames(r, k) IN
    IF valueNames.err # "nil" THEN
        [err |-> Err("Read", <<valueNames.err>>), entries |-> NoEntries,
         trace |-> <<"open">> \o DeferClose]
    ELSE
        [err |-> Nil,
         entries |-> [name \in {n \in valueNames.names :
                                   GetStringValue(r, k, n).err = "nil"}
                        |-> GetStringValue(r, k, name).value],
         trace |-> <<"open">> \o DeferClose]

\* The handle trace of the loop of ListAllStartupEntries from registryTypes[i] on.
RECURSIVE ListAllTrace(_, _)
ListAllTrace(r, i) ==
    IF i > Len(registryTypes) THEN <<>>
    ELSE ListStartupEntriesOn(r, registryTypes[i]).trace \o ListAllTrace(r, i + 1)

\* Mutant of ListAllStartupEntriesOn: the len(entries) > 0 test is missing.
ListAllStartupEntriesOn_KeepsEmpty(r) ==
    [err |-> Nil,
     allEntries |->
        [registryType \in
            {registryTypes[i] : i \in
                {j \in 1..Len(registryTypes) :
                    ListStartupEntriesOn(r, registryTypes[j]).err = Nil}}
         |-> ListStartupEntriesOn(r, registryType).entries],
     trace |-> ListAllTrace(r, 1)]

ListAllStartupEntriesOn(r) ==
    [err |-> Nil,
     allEntries |->
        [registryType \in
            {registryTypes[i] : i \in
                {j \in 1..Len(registryTypes) :
                    LET l == ListStartupEntriesOn(r, registryTypes[j])
                    IN  l.err = Nil /\ Cardinality(DOMAIN l.entries) > 0}}
         |-> ListStartupEntriesOn(r, registryType).entries],
     trace |-> ListAllTrace(r, 1)]

----------------------------------------------------------------------------
(* State machine *)

Entries == [Name : Names, Command : Commands]

\* What a call leaves in last: the entry name it was given, its error, its
\* result and the largest number of handles open at one moment during it.
Returned(op, name, err, out, trace) ==
    [op |-> op, name |-> name, err |-> err, out |-> out,
     peak |-> PeakFrom(handles, trace)]

Init ==
    /\ reg = EmptyRegistry
    /\ access = [r \in RootKeys |-> "all"]
    /\ fault = FALSE
    /\ handles = 0
    /\ last = [op |-> "none", name |-> "", err |-> Nil, out |-> NoEntries, peak |-> 0]

AddStartupEntry(entry, registryType) ==
    \E r \in {AddStartupEntryOn(reg, entry, registryType)} :
    /\ Count(r.reg) <= MaxEntries
    /\ reg' = r.reg
    /\ handles' = handles + Balance(r.trace)
    /\ last' = Returned("Add", entry.Name, r.err, NoEntries, r.trace)
    /\ UNCHANGED <<access, fault>>

RemoveStartupEntry(entryName, registryType) ==
    \E r \in {RemoveStartupEntryOn(reg, entryName, registryType)} :
    /\ reg' = r.reg
    /\ handles' = handles + Balance(r.trace)
    /\ last' = Returned("Remove", entryName, r.err, NoEntries, r.trace)
    /\ UNCHANGED <<access, fault>>

SafeRemoveStartupEntry(entryName) ==
    \E r \in {SafeRemoveStartupEntryOn(reg, entryName)} :
    /\ reg' = r.reg
    /\ handles' = handles + Balance(r.trace)
    /\ last' = Returned("SafeRemove", entryName, r.err, NoEntries, r.trace)
    /\ UNCHANGED <<access, fault>>

ListStartupEntries(registryType) ==
    \E r \in {ListStartupEntriesOn(reg, registryType)} :
    /\ handles' = handles + Balance(r.trace)
    /\ last' = Returned("List", "", r.err, r.entries, r.trace)
    /\ UNCHANGED <<reg, access, fault>>

ListAllStartupEntries ==
    \E r \in {ListAllStartupEntriesOn(reg)} :
    /\ handles' = handles + Balance(r.trace)
    /\ last' = Returned("ListAll", "", r.err, r.allEntries, r.trace)
    /\ UNCHANGED <<reg, access, fault>>

(* The environment: the privileges of the calling process change between   *)
(* runs, the registry starts or stops failing, and other programs write    *)
(* values of their own under the same keys.                                *)
External == [op |-> "external", name |-> "", err |-> Nil, out |-> NoEntries, peak |-> 0]

SetAccess(rootKey, level) ==
    /\ access[rootKey] # level
    /\ access' = [access EXCEPT ![rootKey] = level]
    /\ last' = External
    /\ UNCHANGED <<reg, fault, handles>>

SetFault(f) ==
    /\ fault # f
    /\ fault' = f
    /\ last' = External
    /\ UNCHANGED <<reg, access, handles>>

ExternalSetValue(k, name) ==
    /\ reg[k][name] # Dword
    /\ reg' = [reg EXCEPT ![k][name] = Dword]
    /\ Count(reg') <= MaxEntries
    /\ last' = External
    /\ UNCHANGED <<access, fault, handles>>

Next ==
    \/ \E entry \in Entries, registryType \in ScopeValues :
          AddStartupEntry(entry, registryType)
    \/ \E entryName \in Names, registryType \in ScopeValues :
          RemoveStartupEntry(entryName, registryType)
    \/ \E entryName \in Names : SafeRemoveStartupEntry(entryName)
    \/ \E registryType \in ScopeValues : ListStartupEntries(registryType)
    \/ ListAllStartupEntries
    \/ \E rootKey \in RestrictedRootKeys, level \in AccessLevels :
          SetAccess(rootKey, level)
    \/ \E f \in BOOLEAN : SetFault(f)
    \/ \E k \in Keys, name \in StoredNames : ExternalSetValue(k, name)

Spec == Init /\ [][Next]_vars

----------------------------------------------------------------------------
(* Properties.  Each is stated of every call that can be made in a         *)
(* reachable state: the call's result is the operator the action applies.  *)

KeyOf(registryType) == getRegistryPath(registryType)

Present(r, registryType, name) ==
    name \in StoredNames /\ r[KeyOf(registryType)][name] # Absent

FourScopes == {registryTypes[i] : i \in 1..Len(registryTypes)}

CanOpen(registryType, mode) ==
    OpenKey(KeyOf(registryType).rootKey, KeyOf(registryType).keyPath, mode) = "nil"

\* name is in no listing of the registry r: not in ListStartupEntries of any
\* of the four scopes, not in any scope of ListAllStartupEntries.
InNoListing(r, name) ==
    /\ \A t \in FourScopes : name \notin DOMAIN ListStartupEntriesOn(r, t).entries
    /\ \A all \in {ListAllStartupEntriesOn(r).allEntries} :
       \A t \in DOMAIN all : name \notin DOMAIN all[t]

AppPath == <<"C:", "work", "app.exe">>

\* C1: when AddStartupEntry(entry, scope) succeeds for an entry with a
\* non-empty name and a command whose absolute path exists, ListStartupEntries
\* of the same scope, called on the registry the add left, succeeds and maps
\* entry.Name to the absolute path of entry.Command.
C1_AddThenList ==
    \A entry \in Entries, registryType \in ScopeValues :
       \A a \in {AddStartupEntryOn(reg, entry, registryType)} :
       ( /\ entry.Name # ""
         /\ Abs(entry.Command).err = "nil"
         /\ Exists(Abs(entry.Command).path)
         /\ a.err = Nil )
       => \A l \in {ListStartupEntriesOn(a.reg, registryType)} :
          /\ l.err = Nil
          /\ entry.Name \in DOMAIN l.entries
          /\ l.entries[entry.Name] = Abs(entry.Command).path

\* A listing that returned, after a successful add of the relative command,
\* the name mapped to the absolute path.
C1_Witness ==
    /\ last.op = "List"
    /\ last.err = Nil
    /\ "TestApp" \in DOMAIN last.out
    /\ last.out["TestApp"] = AppPath

\* C2 as stated: whenever SafeRemoveStartupEntry(name) returns success, the
\* name is in no listing of any of the four scopes.
C2_Original ==
    \A name \in Names :
       \A s \in {SafeRemoveStartupEntryOn(reg, name)} :
       s.err = Nil => InNoListing(s.reg, name)

\* C2 amended: whenever SafeRemoveStartupEntry(name) returns success, the
\* name is gone from every scope whose own removal succeeded or reported the
\* value as not found, and from the listing of each such scope; a scope
\* whose removal failed otherwise may still hold it.
C2_RemovedWhereRemovable ==
    \A name \in Names :
       \A s \in {SafeRemoveStartupEntryOn(reg, name)} :
       s.err = Nil =>
          \A t \in FourScopes :
             RemoveStartupEntryOn(reg, name, t).err.kind \in {"nil", "NotFound"}
             => /\ ~Present(s.reg, t, name)
                /\ name \notin DOMAIN ListStartupEntriesOn(s.reg, t).entries

\* A safe remove that succeeded and left the name in a machine key that
\* could not be written.
C2_Witness ==
    /\ last.op = "SafeRemove"
    /\ last.err = Nil
    /\ access["LOCAL_MACHINE"] = "read"
    /\ Present(reg, AllUsersRun, last.name)
    /\ ~Present(reg, CurrentUserRun, last.name)

\* C3 as stated: SafeRemoveStartupEntry(name) succeeds exactly when the
\* entry exists in at least one of the four scopes.
C3_Original ==
    \A name \in Names :
       (SafeRemoveStartupEntryOn(reg, name).err = Nil)
       <=> (\E t \in FourScopes : Present(reg, t, name))

\* C3 amended: SafeRemoveStartupEntry(name) succeeds exactly when the entry
\* exists in at least one scope it can be deleted from: the key of the scope
\* opens with write access and the delete does not fail.  It fails when the
\* entry is present in none, and also when it is present only in scopes it
\* cannot be deleted from.
C3_SucceedsIffDeletable ==
    \A name \in Names :
       (SafeRemoveStartupEntryOn(reg, name).err = Nil)
       <=> (\E t \in FourScopes :
               /\ Present(reg, t, name)
               /\ CanOpen(t, "ALL_ACCESS")
               /\ DeleteValue(reg, KeyOf(t), name).err = "nil")

\* A safe remove that failed for a name some scope still holds.
C3_Witness ==
    /\ last.op = "SafeRemove"
    /\ last.err.kind = "AggregateNotFound"
    /\ \E t \in FourScopes : Present(reg, t, last.name)

\* C4: SafeRemoveStartupEntry(name) is RemoveStartupEntry in CurrentUserRun,
\* CurrentUserRunOnce, AllUsersRun and AllUsersRunOnce, in that order and
\* all four whatever the earlier ones returned; it returns nil exactly when
\* one of the four returned nil, and otherwise the aggregate error wrapping
\* the error of the fourth (AllUsersRunOnce).
C4_SafeRemoveOrder ==
    \A name \in Names :
       \A r1 \in {RemoveStartupEntryOn(reg, name, CurrentUserRun)} :
       \A r2 \in {RemoveStartupEntryOn(r1.reg, name, CurrentUserRunOnce)} :
       \A r3 \in {RemoveStartupEntryOn(r2.reg, name, AllUsersRun)} :
       \A r4 \in {RemoveStartupEntryOn(r3.reg, name, AllUsersRunOnce)} :
       \A s \in {SafeRemoveStartupEntryOn(reg, name)} :
       \A any \in {Nil \in {r1.err, r2.err, r3.err, r4.err}} :
           /\ s.reg = r4.reg
           /\ s.trace = r1.trace \o r2.trace \o r3.trace \o r4.trace
           /\ (s.err = Nil) <=> any
           /\ ~any => s.err = Err("AggregateNotFound", <<name, r4.err>>)

\* A safe remove that failed in all four scopes, with "not found" in the
\* user keys and an access error, the one it wraps, in the machine keys.
C4_Witness ==
    /\ last.op = "SafeRemove"
    /\ last.name = "TestApp"
    /\ last.err.kind = "AggregateNotFound"
    /\ last.err.detail[2].kind = "Access"
    /\ fault = FALSE

\* C5 as stated, for the names that pass the name check: AddStartupEntry
\* with a command whose absolute path does not exist fails with the "does
\* not exist" error and writes nothing.
C5_Original ==
    \A entry \in Entries, registryType \in ScopeValues :
       ( /\ entry.Name # ""
         /\ Abs(entry.Command).err = "nil"
         /\ ~Exists(Abs(entry.Command).path) )
       => \A a \in {AddStartupEntryOn(reg, entry, registryType)} :
          /\ a.err.kind = "NotFound"
          /\ a.reg = reg

\* C6: a successful AddStartupEntry(entry, scope) sets the value entry.Name
\* under the key of the scope to the absolute path and changes no other
\* value of any key; the same add again succeeds and changes nothing, and
\* the listing of the scope holds the name once.
C6_AddFrame ==
    \A entry \in Entries, registryType \in ScopeValues :
       \A a \in {AddStartupEntryOn(reg, entry, registryType)} :
       a.err = Nil =>
          /\ a.reg[KeyOf(registryType)][entry.Name] = String(Abs(entry.Command).path)
          /\ \A k \in Keys, n \in StoredNames :
                (k # KeyOf(registryType) \/ n # entry.Name) => a.reg[k][n] = reg[k][n]
          /\ \A b \in {AddStartupEntryOn(a.reg, entry, registryType)} :
             /\ b.err = Nil
             /\ b.reg = a.reg
             /\ Cardinality({n \in DOMAIN ListStartupEntriesOn(b.reg, registryType).entries :
                                n = entry.Name}) = 1

\* A successful add into a registry that holds another value beside it.
C6_Witness ==
    /\ last.op = "Add"
    /\ last.err = Nil
    /\ last.name = "TestApp"
    /\ Present(reg, CurrentUserRun, "TestApp")
    /\ Present(reg, CurrentUserRun, "Other")

\* C7: RemoveStartupEntry(name, scope) changes at most the value name under
\* the key of the scope: when the value is there and the call succeeds it
\* is gone and nothing else changed; when it is not there the call returns
\* an error and nothing changed.
C7_RemoveFrame ==
    \A name \in Names, registryType \in ScopeValues :
       \A d \in {RemoveStartupEntryOn(reg, name, registryType)} :
       /\ \A k \in Keys, n \in StoredNames :
             (k # KeyOf(registryType) \/ n # name) => d.reg[k][n] = reg[k][n]
       /\ (Present(reg, registryType, name) /\ d.err = Nil)
             => ~Present(d.reg, registryType, name)
       /\ ~Present(reg, registryType, name) => (d.err # Nil /\ d.reg = reg)
       /\ d.err # Nil => d.reg = reg

\* A remove that succeeded and left another value in the registry.
C7_Witness ==
    /\ last.op = "Remove"
    /\ last.err = Nil
    /\ last.name = "TestApp"
    /\ \A t \in FourScopes : ~Present(reg, t, "TestApp")
    /\ Present(reg, CurrentUserRun, "Other")

\* C8: ListAllStartupEntries returns no error, and its result has a scope
\* as a key exactly when ListStartupEntries of that scope succeeds with at
\* least one entry, and then maps the scope to that listing.
C8_ListAll ==
    \A all \in {ListAllStartupEntriesOn(reg)} :
    /\ all.err = Nil
    /\ DOMAIN all.allEntries \subseteq FourScopes
    /\ \A t \in FourScopes :
          \A l \in {ListStartupEntriesOn(reg, t)} :
          /\ (t \in DOMAIN all.allEntries)
                <=> (l.err = Nil /\ DOMAIN l.entries # {})
          /\ (t \in DOMAIN all.allEntries) => all.allEntries[t] = l.entries

\* A ListAll that returned the user scope although the machine keys could
\* not be opened and hold a value.
C8_Witness ==
    /\ last.op = "ListAll"
    /\ last.err = Nil
    /\ access["LOCAL_MACHINE"] = "none"
    /\ Present(reg, AllUsersRun, "TestApp")
    /\ DOMAIN last.out = {CurrentUserRun}

\* C9: no handle is open between calls, and at most one is open at any
\* moment of a call, whichever way the call returned.
C9_HandlesReleased ==
    /\ handles = 0
    /\ last.peak <= 1

\* A call that opened a key and returned a write, delete or read failure.
C9_Witness ==
    /\ last.err.kind \in {"Write", "Delete", "Read"}
    /\ last.peak = 1
    /\ handles = 0

\* C10 as stated: whenever AddStartupEntry sets a value or returns success,
\* the name is non-empty and Stat has found the absolute path to exist; and
\* whenever it returns a validation error (empty name, path that cannot be
\* made absolute, file that does not exist), no key is opened and nothing
\* changes.
C10_Original ==
    \A entry \in Entries, registryType \in ScopeValues :
       \A a \in {AddStartupEntryOn(reg, entry, registryType)} :
       /\ (a.reg # reg \/ a.err = Nil)
             => /\ entry.Name # ""
                /\ Abs(entry.Command).err = "nil"
                /\ Stat(Abs(entry.Command).path) = "nil"
       /\ a.err.kind \in {"Validation", "Path", "NotFound"}
             => (a.trace = <<>> /\ a.reg = reg)

====
